---- MODULE Spec2Model ----
(***************************************************************************)
(* A model of VehicleBlockChain.py: Block (hash_block, mine_block) and     *)
(* VehicleBlockchain (construction, add_data, is_chain_valid, save_chain,  *)
(* load_chain, get_block_by_vehicle_id) over one durable storage file.     *)
(*                                                                         *)
(* Python text (str) is a sequence of symbols, each symbol a natural       *)
(* number: 0..9 are the decimal digits, 10..15 the hexadecimal letters     *)
(* a..f, larger numbers the other characters.  An integer rendered by an   *)
(* f-string ({self.index}, {self.nonce}) is one symbol, the number itself. *)
(***************************************************************************)
EXTENDS Integers, Sequences, FiniteSets, TLC

VARIABLES
    up,          \* TRUE while a VehicleBlockchain object exists
    chain,       \* self.chain: the sequence of Block
    difficulty,  \* self.difficulty
    file,        \* the content of self.data_file on disk
    last,        \* the last call made on the ledger, and what it returned
    tamper,      \* the last direct edit of a block's field, if any
    runs         \* how many ledgers were constructed on the file so far

vars == <<up, chain, difficulty, file, last, tamper, runs>>

----------------------------------------------------------------------------
(* Bounds of the model.                                                    *)

\* add_data is offered while the chain is shorter than this
MaxChain == 3
\* ledgers constructed on the file, one after the other
MaxRuns == 2

----------------------------------------------------------------------------
(* Characters other than digits and hexadecimal letters.                   *)

Sym == [lbrace |-> 20, rbrace |-> 21, quote |-> 22, colon |-> 23,
        comma |-> 24, T |-> 25,
        message |-> 30, sensor_data |-> 31, signature |-> 32,
        vehicle_id |-> 33, BloccoGenesi |-> 34,
        V |-> 40, t |-> 41, n |-> 42, h |-> 43, x |-> 44, y |-> 45,
        z |-> 46, object |-> 99]

\* "0" * difficulty
Zeros(d) == [i \in 1..d |-> 0]

\* s[:n], a Python slice: shorter than n when s is
Take(s, n) == SubSeq(s, 1, IF n < Len(s) THEN n ELSE Len(s))

\* text order of str, as sorted() compares keys that are str
RECURSIVE LexLess(_, _)
LexLess(s, u) ==
    IF u = <<>> THEN FALSE
    ELSE IF s = <<>> THEN TRUE
    ELSE IF s[1] # u[1] THEN s[1] < u[1]
    ELSE LexLess(Tail(s), Tail(u))

----------------------------------------------------------------------------
(* Python dict values handed to add_data as sensor_data.  A dict is the    *)
(* set of its items; a key is an int or a str, [int |-> TRUE] marking an   *)
(* int whose decimal text is `text`; a value is a str, or Sym.object for   *)
(* an object json cannot encode (a set).                                   *)

IntKey(digits) == [int |-> TRUE, text |-> digits]
StrKey(s) == [int |-> FALSE, text |-> s]
Item(k, v) == [k |-> k, v |-> v]

\* order of two keys of the same type under sorted(): ints by value (no
\* leading zeros, so by length and then by digits), str by text
KeyLess(a, b) ==
    IF a.int
    THEN \/ Len(a.text) < Len(b.text)
         \/ Len(a.text) = Len(b.text) /\ LexLess(a.text, b.text)
    ELSE LexLess(a.text, b.text)

\* json.dumps(d, sort_keys=True) raises TypeError when the keys cannot be
\* compared with each other (int against str) or a value cannot be encoded
JsonEncodable(d) ==
    /\ \A a, b \in d : a.k.int = b.k.int
    /\ \A a \in d : a.v # <<Sym.object>>

\* the items of d in the order sort_keys=True writes them
RECURSIVE SortedItems(_)
SortedItems(d) ==
    IF d = {} THEN <<>>
    ELSE LET m == CHOOSE a \in d : \A b \in d \ {a} : KeyLess(a.k, b.k)
         IN  <<m>> \o SortedItems(d \ {m})

Quoted(s) == <<Sym.quote>> \o s \o <<Sym.quote>>

RECURSIVE JoinItems(_)
JoinItems(items) ==
    IF items = <<>> THEN <<>>
    ELSE LET it == items[1]
             one == Quoted(it.k.text) \o <<Sym.colon>> \o Quoted(it.v)
         IN  IF Len(items) = 1 THEN one
             ELSE one \o <<Sym.comma>> \o JoinItems(Tail(items))

\* json.dumps(sensor_data, sort_keys=True): every key is written as a
\* quoted str, an int key by its decimal text
DumpsDict(d) == <<Sym.lbrace>> \o JoinItems(SortedItems(d)) \o <<Sym.rbrace>>

\* what json.load gives back for a dict json.dump wrote: every key a str
JsonDict(d) == { Item(StrKey(it.k.text), it.v) : it \in d }

----------------------------------------------------------------------------
(* Block.data: the genesis marker {"message": ...} or the record add_data  *)
(* builds, {"vehicle_id", "sensor_data", "signature"}.                     *)

GenesisData == [message |-> <<Sym.BloccoGenesi>>]

\* json.dumps(self.data, sort_keys=True)
Dumps(data) ==
    IF "message" \in DOMAIN data
    THEN <<Sym.lbrace>> \o Quoted(<<Sym.message>>) \o <<Sym.colon>>
            \o Quoted(data.message) \o <<Sym.rbrace>>
    ELSE <<Sym.lbrace>>
            \o Quoted(<<Sym.sensor_data>>) \o <<Sym.colon>>
            \o DumpsDict(data.sensor_data) \o <<Sym.comma>>
            \o Quoted(<<Sym.signature>>) \o <<Sym.colon>>
            \o Quoted(data.signature) \o <<Sym.comma>>
            \o Quoted(<<Sym.vehicle_id>>) \o <<Sym.colon>>
            \o Quoted(data.vehicle_id) \o <<Sym.rbrace>>

\* the data a block has after json.dump and json.load
JsonData(data) ==
    IF "message" \in DOMAIN data THEN data
    ELSE [data EXCEPT !.sensor_data = JsonDict(@)]

----------------------------------------------------------------------------
(* hashlib.sha256(text.encode()).hexdigest().  The digest text is modelled *)
(* by its first two digits followed by the input itself: two inputs have   *)
(* the same digest only if they are the same text (collision-free).  The   *)
(* two digits are a checksum of the length of the input and of its first,  *)
(* middle and last symbol (the last symbol of a block's text is its        *)
(* nonce).  They range over 0..1 rather than 0..f, so that a nonce with d  *)
(* leading zeros is found within 4 steps instead of 16^d; Mix is a         *)
(* bijection modulo 4 in the last symbol, so some nonce meets every pair.  *)

Mix(s) ==
    IF s = <<>> THEN 3
    ELSE (3 + Len(s) + s[1] + s[(Len(s) + 1) \div 2] + 3 * s[Len(s)]) % 4

Sha256(s) == LET m == Mix(s) IN <<m % 2, m \div 2>> \o s

----------------------------------------------------------------------------
(* class Block                                                             *)

\* datetime.datetime.now().isoformat() at instant t
IsoFormat(t) == <<Sym.T, t>>

\* f"{index}{timestamp}{json.dumps(data, sort_keys=True)}{previous_hash}{nonce}"
BlockString(b) ==
    <<b.index>> \o b.timestamp \o Dumps(b.data) \o b.previous_hash \o <<b.nonce>>

HashBlock(b) == Sha256(BlockString(b))

\* Block.__init__: nonce 0, hash computed from the fields
NewBlock(index, timestamp, data, previous_hash) ==
    LET b == [index |-> index, timestamp |-> timestamp, data |-> data,
              previous_hash |-> previous_hash, nonce |-> 0, hash |-> <<>>]
    IN  [b EXCEPT !.hash = HashBlock(b)]

\* mine_block with an `if` in place of its `while`
MineBlock_OneStep(b, d) ==
    IF Take(b.hash, d) = Zeros(d) THEN b
    ELSE LET b1 == [b EXCEPT !.nonce = @ + 1]
         IN  [b1 EXCEPT !.hash = HashBlock(b1)]

\* mine_block testing the hash after the step instead of before it
RECURSIVE MineBlock_AlwaysStep(_, _)
MineBlock_AlwaysStep(b, d) ==
    LET b1 == [b EXCEPT !.nonce = @ + 1]
        b2 == [b1 EXCEPT !.hash = HashBlock(b1)]
    IN  IF Take(b2.hash, d) = Zeros(d) THEN b2
        ELSE MineBlock_AlwaysStep(b2, d)

\* Block.mine_block: the proof-of-work loop
RECURSIVE MineBlock(_, _)
MineBlock(b, d) ==
    IF Take(b.hash, d) = Zeros(d) THEN b
    ELSE LET b1 == [b EXCEPT !.nonce = @ + 1]
         IN  MineBlock([b1 EXCEPT !.hash = HashBlock(b1)], d)

----------------------------------------------------------------------------
(* The storage file.  `exists` is os.path.exists(data_file); `json` says   *)
(* whether json.load can parse the content; `records` is the list it       *)
(* gives.  A write either replaces the whole content or, when it fails,    *)
(* leaves the file as it was.                                              *)

NoFile == [exists |-> FALSE, json |-> FALSE, records |-> <<>>]

BlockKeys == {"index", "timestamp", "data", "previous_hash", "nonce", "hash"}

\* VehicleBlockchain.save_chain, the content json.dump writes: one record
\* per block, the data as JSON holds it
Stored(ch) ==
    [exists |-> TRUE, json |-> TRUE,
     records |-> [i \in 1..Len(ch) |-> [ch[i] EXCEPT !.data = JsonData(@)]]]

\* save_chain writing the tail block only
SaveChain_TailOnly(ch, f, writable) ==
    IF writable /\ ch # <<>> THEN Stored(<<ch[Len(ch)]>>) ELSE f

\* VehicleBlockchain.save_chain: an exception is logged and swallowed
SaveChain(ch, f, writable) == IF writable THEN Stored(ch) ELSE f

\* the loop of load_chain: a record that lacks a key raises KeyError after
\* the blocks of the records before it were appended
RECURSIVE Rebuild(_, _, _)
Rebuild(records, i, acc) ==
    IF i > Len(records) THEN [chain |-> acc, raised |-> FALSE]
    ELSE IF ~(BlockKeys \subseteq DOMAIN records[i])
    THEN [chain |-> acc, raised |-> TRUE]
    ELSE LET r == records[i]
             b == [index |-> r.index, timestamp |-> r.timestamp,
                   data |-> r.data, previous_hash |-> r.previous_hash,
                   nonce |-> r.nonce, hash |-> r.hash]
         IN  Rebuild(records, i + 1, Append(acc, b))

\* the try block of load_chain: open and json.load raise before self.chain
\* is reset; nonce and hash are taken from the record, nothing is mined
TryLoad(ch, f, readable) ==
    IF ~f.exists \/ ~readable \/ ~f.json
    THEN [chain |-> ch, raised |-> TRUE]
    ELSE Rebuild(f.records, 1, <<>>)

\* create_genesis_block without its call of mine_block
CreateGenesisBlock_Unmined(ch, d, t) ==
    Append(ch, NewBlock(0, IsoFormat(t), GenesisData, <<0>>))

\* VehicleBlockchain.create_genesis_block, up to the append
CreateGenesisBlock(ch, d, t) ==
    Append(ch, MineBlock(NewBlock(0, IsoFormat(t), GenesisData, <<0>>), d))

\* VehicleBlockchain.load_chain: the chain it leaves
LoadChain(ch, f, readable, d, t) ==
    LET got == TryLoad(ch, f, readable)
    IN  IF got.raised THEN CreateGenesisBlock(got.chain, d, t) ELSE got.chain

----------------------------------------------------------------------------
(* VehicleBlockchain: add_data and what it calls                           *)

\* arguments given as vehicle_id: a str, or an int
StrArg(s) == [str |-> TRUE, text |-> s]
IntArg(n) == [str |-> FALSE, text |-> <<n>>]

\* arguments given as sensor_data: a dict, or a list
DictArg(items) == [dict |-> TRUE, items |-> items]
ListArg == [dict |-> FALSE, items |-> {}]

\* bool(vehicle_id)
Truthy(v) == IF v.str THEN v.text # <<>> ELSE v.text # <<0>>

\* _validate_data without its test of `not vehicle_id`
ValidateData_EmptyIdAccepted(vehicle_id, sensor_data) ==
    /\ vehicle_id.str
    /\ sensor_data.dict

\* VehicleBlockchain._validate_data does not raise
ValidateData(vehicle_id, sensor_data) ==
    /\ Truthy(vehicle_id) /\ vehicle_id.str
    /\ sensor_data.dict

\* VehicleBlockchain._generate_signature
GenerateSignature(vehicle_id, sensor_data) ==
    Sha256(vehicle_id \o DumpsDict(sensor_data))

\* add_data without its call of mine_block
BuildBlock_Unmined(ch, vehicle_id, sensor_data, d, t) ==
    NewBlock(Len(ch), IsoFormat(t),
             [vehicle_id |-> vehicle_id, sensor_data |-> sensor_data,
              signature |-> GenerateSignature(vehicle_id, sensor_data)],
             ch[Len(ch)].hash)

\* add_data numbering its block like the tail block
BuildBlock_IndexOfTail(ch, vehicle_id, sensor_data, d, t) ==
    MineBlock(
        NewBlock(Len(ch) - 1, IsoFormat(t),
                 [vehicle_id |-> vehicle_id, sensor_data |-> sensor_data,
                  signature |-> GenerateSignature(vehicle_id, sensor_data)],
                 ch[Len(ch)].hash),
        d)

\* add_data linking its block to the first block instead of the tail
BuildBlock_StaleLink(ch, vehicle_id, sensor_data, d, t) ==
    MineBlock(
        NewBlock(Len(ch), IsoFormat(t),
                 [vehicle_id |-> vehicle_id, sensor_data |-> sensor_data,
                  signature |-> GenerateSignature(vehicle_id, sensor_data)],
                 ch[1].hash),
        d)

\* the block add_data builds and mines
BuildBlock(ch, vehicle_id, sensor_data, d, t) ==
    MineBlock(
        NewBlock(Len(ch), IsoFormat(t),
                 [vehicle_id |-> vehicle_id, sensor_data |-> sensor_data,
                  signature |-> GenerateSignature(vehicle_id, sensor_data)],
                 ch[Len(ch)].hash),
        d)

\* add_data reaches its return True: validation passes, self.chain[-1]
\* exists, and json.dumps encodes the data
AddSucceeds(ch, vehicle_id, sensor_data) ==
    /\ ValidateData(vehicle_id, sensor_data)
    /\ ch # <<>>
    /\ JsonEncodable(sensor_data.items)

\* is_chain_valid without its comparison of previous_hash
RECURSIVE Walk_NoLinkCheck(_, _)
Walk_NoLinkCheck(ch, i) ==
    IF i > Len(ch) THEN [valid |-> TRUE, at |-> 0, why |-> "none"]
    ELSE IF ch[i].hash # HashBlock(ch[i])
    THEN [valid |-> FALSE, at |-> i, why |-> "hash"]
    ELSE Walk_NoLinkCheck(ch, i + 1)

\* is_chain_valid without its comparison of the stored hash
RECURSIVE Walk_NoHashCheck(_, _)
Walk_NoHashCheck(ch, i) ==
    IF i > Len(ch) THEN [valid |-> TRUE, at |-> 0, why |-> "none"]
    ELSE IF ch[i].previous_hash # ch[i - 1].hash
    THEN [valid |-> FALSE, at |-> i, why |-> "link"]
    ELSE Walk_NoHashCheck(ch, i + 1)

\* VehicleBlockchain.is_chain_valid: the walk from position i (positions
\* count from 1 here, so the walk starts at 2)
RECURSIVE Walk(_, _)
Walk(ch, i) ==
    IF i > Len(ch) THEN [valid |-> TRUE, at |-> 0, why |-> "none"]
    ELSE IF ch[i].hash # HashBlock(ch[i])
    THEN [valid |-> FALSE, at |-> i, why |-> "hash"]
    ELSE IF ch[i].previous_hash # ch[i - 1].hash
    THEN [valid |-> FALSE, at |-> i, why |-> "link"]
    ELSE Walk(ch, i + 1)

IsChainValid(ch) == Walk(ch, 2).valid

\* None, as dict.get answers for a key the dict lacks; no str equals it
PyNone == <<Sym.object, Sym.n>>

\* block.data.get("vehicle_id")
DataGetVehicleId(data) ==
    IF "vehicle_id" \in DOMAIN data THEN data.vehicle_id ELSE PyNone

\* get_block_by_vehicle_id without its test of block.index > 0
GetBlockByVehicleId_WithGenesis(ch, vehicle_id) ==
    SelectSeq(ch, LAMBDA b : DataGetVehicleId(b.data) = vehicle_id)

\* VehicleBlockchain.get_block_by_vehicle_id
GetBlockByVehicleId(ch, vehicle_id) ==
    SelectSeq(ch, LAMBDA b :
        /\ b.index > 0
        /\ DataGetVehicleId(b.data) = vehicle_id)

----------------------------------------------------------------------------
(* What the handlers do up to their call of save_chain: the chain they     *)
(* leave, the value they return, the calls they made on the way, and       *)
(* whether they end by calling save_chain.                                 *)

Result(ch, ret, events, saves) ==
    [chain |-> ch, ret |-> ret, events |-> events, saves |-> saves]

\* create_genesis_block
GenesisResult(ch, d, t) ==
    Result(CreateGenesisBlock(ch, d, t), TRUE,
           {"create_genesis_block", "mine_block"}, TRUE)

\* load_chain, with the create_genesis_block of its except branch
LoadResult(ch, f, readable, d, t) ==
    LET got == TryLoad(ch, f, readable)
    IN  IF got.raised
        THEN LET g == GenesisResult(got.chain, d, t)
             IN  [g EXCEPT !.events = @ \cup {"load_chain", "load_error"}]
        ELSE Result(got.chain, TRUE, {"load_chain"}, FALSE)

\* VehicleBlockchain.__init__
InitResult(f, readable, d, t) ==
    IF f.exists
    THEN LoadResult(<<>>, f, readable, d, t)
    ELSE GenesisResult(<<>>, d, t)

\* VehicleBlockchain.add_data
AddDataResult(ch, vehicle_id, sensor_data, d, t) ==
    IF AddSucceeds(ch, vehicle_id, sensor_data)
    THEN Result(Append(ch, BuildBlock(ch, vehicle_id.text,
                                      sensor_data.items, d, t)),
                TRUE, {"mine_block"}, TRUE)
    ELSE Result(ch, FALSE, {"raised"}, FALSE)

\* the file after a handler that leaves result r, and the calls made
FileAfter(r, f, writable) ==
    IF r.saves THEN SaveChain(r.chain, f, writable) ELSE f

SaveEvents(writable) ==
    IF writable THEN {"save_chain"} ELSE {"save_chain", "save_error"}

EventsAfter(r, writable) ==
    IF r.saves THEN r.events \cup SaveEvents(writable) ELSE r.events

----------------------------------------------------------------------------
(* Inputs                                                                  *)

Difficulties == {1, 2}
\* the instants datetime.datetime.now() answers
Instants == {1}

V1 == <<Sym.V, 1>>
V2 == <<Sym.V, 2>>

\* {"2": "x"}, {2: "x"}, {2: "x", 10: "y"}, {"t": {..a set..}}
StrDict == {Item(StrKey(<<2>>), <<Sym.x>>)}
IntDict == {Item(IntKey(<<2>>), <<Sym.x>>)}
IntDict2 == {Item(IntKey(<<2>>), <<Sym.x>>), Item(IntKey(<<1, 0>>), <<Sym.y>>)}
SetDict == {Item(StrKey(<<Sym.t>>), <<Sym.object>>)}

\* the (vehicle_id, sensor_data) pairs add_data is called with: two that
\* it accepts, three that _validate_data rejects (an empty id, an id that
\* is an int, a list as data), one that json.dumps rejects
AddDataArgs ==
    {<<StrArg(V1), DictArg(StrDict)>>,
     <<StrArg(V2), DictArg(IntDict2)>>,
     <<StrArg(<<>>), DictArg(StrDict)>>,
     <<IntArg(5), DictArg(StrDict)>>,
     <<StrArg(V1), ListArg>>,
     <<StrArg(V1), DictArg(SetDict)>>}

\* a genesis block as a ledger of difficulty 1 mines it
StoredGenesis == CreateGenesisBlock(<<>>, 1, 1)[1]

\* a record that lacks the key "hash"
ShortRecord ==
    [index |-> 1, timestamp |-> IsoFormat(1), data |-> GenesisData,
     previous_hash |-> StoredGenesis.hash, nonce |-> 0]

ListFile(records) == [exists |-> TRUE, json |-> TRUE, records |-> records]

\* the storage a ledger may be constructed on: none, text that is no JSON,
\* an empty list, and a list whose second record lacks a key
InitialFiles ==
    {NoFile,
     [exists |-> TRUE, json |-> FALSE, records |-> <<>>],
     ListFile(<<>>),
     ListFile(<<StoredGenesis, ShortRecord>>)}

\* the difficulties mine_block is called with on a block of its own; the
\* digest text of the model carries two digits
MineDifficulties == {0, 1, 2}

\* the blocks mine_block is called on: built by Block(...) or restored, with
\* a hash that is the hash of the fields or one that is not
MineBlocks ==
    { [b EXCEPT !.hash = IF h = <<>> THEN HashBlock(b) ELSE h] :
        b \in [index : {0, 1, 2},
               timestamp : {IsoFormat(1)},
               data : {GenesisData,
                       [vehicle_id |-> V1, sensor_data |-> StrDict,
                        signature |-> GenerateSignature(V1, StrDict)],
                       [vehicle_id |-> V2, sensor_data |-> IntDict2,
                        signature |-> GenerateSignature(V2, IntDict2)]},
               previous_hash : {<<0>>, StoredGenesis.hash},
               nonce : {0, 3},
               hash : {<<>>}],
        h \in {<<>>, <<0, 0, 9>>, <<1, 1, 9>>} }

----------------------------------------------------------------------------
(* State machine                                                           *)

Call(op, args, ret, events, out) ==
    [op |-> op, args |-> args, ret |-> ret, events |-> events, out |-> out]

NoCall == Call("none", <<>>, TRUE, {}, <<>>)

NoTamper == [done |-> FALSE, fresh |-> FALSE, pos |-> 0, field |-> "none",
             valid_before |-> FALSE, same_json |-> FALSE]

\* every call but is_chain_valid ends the moment "right after the edit"
Stale == [tamper EXCEPT !.fresh = FALSE]

\* the outcomes of the write in save_chain, when the handler reaches it
Writes(r) == IF r.saves THEN BOOLEAN ELSE {TRUE}

Init ==
    /\ up = FALSE
    /\ chain = <<>>
    /\ difficulty = 0
    /\ file \in InitialFiles
    /\ last = NoCall
    /\ tamper = NoTamper
    /\ runs = 0

InitFresh ==
    /\ up = FALSE
    /\ chain = <<>>
    /\ difficulty = 0
    /\ file = NoFile
    /\ last = NoCall
    /\ tamper = NoTamper
    /\ runs = 0

\* VehicleBlockchain(difficulty=d, data_file)
Construct(d, readable, t) ==
    /\ ~up
    /\ runs < MaxRuns
    /\ runs' = runs + 1
    /\ LET r == InitResult(file, readable, d, t)
       IN  \E writable \in Writes(r) :
            /\ chain' = r.chain
            /\ file' = FileAfter(r, file, writable)
            /\ last' = Call("construct", <<>>, r.ret,
                            EventsAfter(r, writable), <<>>)
    /\ up' = TRUE
    /\ difficulty' = d
    /\ tamper' = Stale

AddData(vehicle_id, sensor_data, t) ==
    /\ up
    /\ Len(chain) < MaxChain
    /\ LET r == AddDataResult(chain, vehicle_id, sensor_data, difficulty, t)
       IN  \E writable \in Writes(r) :
            /\ chain' = r.chain
            /\ file' = FileAfter(r, file, writable)
            /\ last' = Call("add_data", <<vehicle_id, sensor_data>>, r.ret,
                            EventsAfter(r, writable), <<>>)
    /\ tamper' = Stale
    /\ UNCHANGED <<up, difficulty, runs>>

IsChainValidOp ==
    /\ up
    /\ last' = Call("is_chain_valid", <<>>, IsChainValid(chain), {}, <<>>)
    /\ UNCHANGED <<up, chain, difficulty, file, tamper, runs>>

SaveChainOp(writable) ==
    /\ up
    /\ file' = SaveChain(chain, file, writable)
    /\ last' = Call("save_chain", <<>>, TRUE, SaveEvents(writable), <<>>)
    /\ tamper' = Stale
    /\ UNCHANGED <<up, chain, difficulty, runs>>

LoadChainOp(readable, t) ==
    /\ up
    /\ LET r == LoadResult(chain, file, readable, difficulty, t)
       IN  /\ Len(r.chain) <= MaxChain
           /\ \E writable \in Writes(r) :
                /\ chain' = r.chain
                /\ file' = FileAfter(r, file, writable)
                /\ last' = Call("load_chain", <<>>, r.ret,
                                EventsAfter(r, writable), <<>>)
    /\ tamper' = Stale
    /\ UNCHANGED <<up, difficulty, runs>>

GetBlockOp(vehicle_id) ==
    /\ up
    /\ last' = Call("get_block_by_vehicle_id", <<vehicle_id>>, TRUE, {},
                    GetBlockByVehicleId(chain, vehicle_id))
    /\ tamper' = Stale
    /\ UNCHANGED <<up, chain, difficulty, file, runs>>

\* block.mine_block(d) on a block that belongs to no ledger; `chain` holds
\* the block, last.out the block as it was before the call
MineBlockOp(d) ==
    /\ ~up
    /\ Len(chain) = 1
    /\ chain' = <<MineBlock(chain[1], d)>>
    /\ last' = Call("mine_block", <<d>>, TRUE, {}, <<chain[1]>>)
    /\ UNCHANGED <<up, difficulty, file, tamper, runs>>

\* the process ends: the object is gone, the file stays
Shutdown ==
    /\ up
    /\ up' = FALSE
    /\ chain' = <<>>
    /\ difficulty' = 0
    /\ last' = NoCall
    /\ tamper' = Stale
    /\ UNCHANGED <<file, runs>>

\* the values a caller may write into a field of block b
EditValues(b, field) ==
    CASE field = "data" ->
            IF "message" \in DOMAIN b.data
            THEN {[message |-> <<Sym.z>>]}
            ELSE {[b.data EXCEPT !.sensor_data = d] :
                    d \in {StrDict, IntDict, JsonDict(IntDict2)}}
                 \cup {[b.data EXCEPT !.vehicle_id = <<Sym.V, 3>>]}
      [] field = "nonce" -> {b.nonce + 1}
      [] field = "previous_hash" -> {<<0>>, <<1, 1>>}
      [] field = "timestamp" -> {IsoFormat(2)}

\* chain[i].<field> = value, written by a caller: the stored hash stays
Edit(i, field, value) ==
    /\ up
    /\ ~tamper.done
    /\ i \in 1..Len(chain)
    /\ chain[i][field] # value
    /\ chain' = [chain EXCEPT ![i][field] = value]
    /\ tamper' = [done |-> TRUE, fresh |-> TRUE, pos |-> i, field |-> field,
                  valid_before |-> IsChainValid(chain),
                  same_json |-> /\ field = "data"
                                /\ Dumps(value) = Dumps(chain[i].data)]
    /\ last' = NoCall
    /\ UNCHANGED <<up, difficulty, file, runs>>

\* the values a caller may write into previous_hash of chain[i] when
\* splicing: "0", a text that is no block's hash, the hash of another block
SpliceValues(ch, i) ==
    ({<<0>>, <<1, 1>>} \cup {ch[j].hash : j \in 1..Len(ch)}) \ {ch[i - 1].hash}

\* chain[i].previous_hash = value; chain[i].hash = chain[i].hash_block(),
\* written by a caller: the block is re-hashed, not re-mined
Splice(i, value) ==
    /\ up
    /\ ~tamper.done
    /\ i \in 2..Len(chain)
    /\ chain[i].previous_hash # value
    /\ LET b == [chain[i] EXCEPT !.previous_hash = value]
       IN  chain' = [chain EXCEPT ![i] = [b EXCEPT !.hash = HashBlock(b)]]
    /\ tamper' = [done |-> TRUE, fresh |-> TRUE, pos |-> i,
                  field |-> "previous_hash, hash",
                  valid_before |-> IsChainValid(chain),
                  same_json |-> FALSE]
    /\ last' = NoCall
    /\ UNCHANGED <<up, difficulty, file, runs>>

Next ==
    \/ \E d \in Difficulties, readable \in BOOLEAN, t \in Instants :
          Construct(d, readable, t)
    \/ \E a \in AddDataArgs, t \in Instants : AddData(a[1], a[2], t)
    \/ IsChainValidOp
    \/ \E writable \in BOOLEAN : SaveChainOp(writable)
    \/ \E readable \in BOOLEAN, t \in Instants : LoadChainOp(readable, t)
    \/ \E v \in {V1, V2} : GetBlockOp(v)
    \/ Shutdown

\* the operations that write the chain or the file; is_chain_valid and
\* get_block_by_vehicle_id read the chain and leave both as they are
NextStore ==
    \/ \E d \in Difficulties, readable \in BOOLEAN, t \in Instants :
          Construct(d, readable, t)
    \/ \E a \in AddDataArgs, t \in Instants : AddData(a[1], a[2], t)
    \/ \E writable \in BOOLEAN : SaveChainOp(writable)
    \/ \E readable \in BOOLEAN, t \in Instants : LoadChainOp(readable, t)
    \/ Shutdown

\* a ledger that is built, has one field of one block edited, and is
\* validated
NextEdit ==
    \/ \E d \in Difficulties, t \in Instants :
          ~tamper.done /\ Construct(d, TRUE, t)
    \/ \E a \in AddDataArgs, t \in Instants :
          ~tamper.done /\ AddData(a[1], a[2], t)
    \/ \E i \in 1..MaxChain,
          field \in {"data", "nonce", "previous_hash", "timestamp"} :
          /\ i <= Len(chain)
          /\ \E value \in EditValues(chain[i], field) : Edit(i, field, value)
    \/ IsChainValidOp

\* a ledger constructed where no file exists, and the calls made on it
\* while it lives: add_data, is_chain_valid, get_block_by_vehicle_id
NextAdd ==
    \/ \E d \in Difficulties, t \in Instants :
          ~file.exists /\ Construct(d, TRUE, t)
    \/ \E a \in AddDataArgs, t \in Instants : AddData(a[1], a[2], t)
    \/ IsChainValidOp
    \/ \E v \in {V1, V2, PyNone} : GetBlockOp(v)

\* a ledger over any storage content, and the operations that write
Spec == Init /\ [][NextStore]_vars

\* a ledger whose storage holds only what ledgers wrote
SpecFresh == InitFresh /\ [][Next]_vars

\* a ledger whose blocks a caller edits
SpecEdit == InitFresh /\ [][NextEdit]_vars

\* a ledger that is built, has one block linked elsewhere and re-hashed,
\* and is validated
NextSplice ==
    \/ \E d \in Difficulties, t \in Instants :
          ~tamper.done /\ Construct(d, TRUE, t)
    \/ \E a \in AddDataArgs, t \in Instants :
          ~tamper.done /\ AddData(a[1], a[2], t)
    \/ \E i \in 2..MaxChain :
          /\ i <= Len(chain)
          /\ \E value \in SpliceValues(chain, i) : Splice(i, value)
    \/ IsChainValidOp

\* a ledger whose blocks a caller splices
SpecSplice == InitFresh /\ [][NextSplice]_vars

\* ledgers, one after the other, on storage that only they write
SpecLag == InitFresh /\ [][NextStore]_vars

\* a block of its own, about to be mined
InitMine ==
    /\ up = FALSE
    /\ chain \in {<<b>> : b \in MineBlocks}
    /\ difficulty = 0
    /\ file = NoFile
    /\ last = NoCall
    /\ tamper = NoTamper
    /\ runs = 0

NextMine == \E d \in MineDifficulties : MineBlockOp(d)

\* mine_block called again and again on one block
SpecMine == InitMine /\ [][NextMine]_vars

\* one ledger started with no prior durable state
SpecAdd == InitFresh /\ [][NextAdd]_vars

----------------------------------------------------------------------------
(* Properties                                                              *)

\* the stored hash of b is the hash of its fields
Consistent(b) == b.hash = HashBlock(b)

\* the hash of b has d leading zeros
MeetsDifficulty(b, d) == Take(b.hash, d) = Zeros(d)

\* s is the start of u, block for block
IsPrefix(s, u) == Len(s) <= Len(u) /\ SubSeq(u, 1, Len(s)) = s

\* is_chain_valid was called right after one field of the block at a
\* position >= 1 (the second block or later) of an accepted chain was edited
CheckedAfterEdit ==
    /\ last.op = "is_chain_valid"
    /\ tamper.fresh
    /\ tamper.valid_before
    /\ tamper.pos >= 2

\* C1, as stated: after data, nonce, previous_hash or timestamp of a
\* non-genesis block of an accepted chain was changed to a different value,
\* the stored hash left alone, the next is_chain_valid() returns False.
C1_EditDetected == CheckedAfterEdit => ~last.ret

\* C1, amended: the same, when a change of data changes the text
\* json.dumps(data, sort_keys=True) hashes; a change of data to a value with
\* the same JSON text ({"2": "x"} to {2: "x"}) is not covered.
C1_EditOfHashedTextDetected ==
    (CheckedAfterEdit /\ ~tamper.same_json) => ~last.ret

C1_Witness ==
    /\ CheckedAfterEdit
    /\ tamper.field = "data"
    /\ ~tamper.same_json
    /\ ~last.ret
    /\ Len(chain) = 3

\* C2: is_chain_valid() returns True only if every block, the genesis block
\* included, has a stored hash equal to the hash of its fields, and every
\* block after the first has previous_hash equal to the hash stored in the
\* block before it.
C2_ValidMeansNoViolation ==
    (last.op = "is_chain_valid" /\ last.ret) =>
        /\ \A i \in 1..Len(chain) : Consistent(chain[i])
        /\ \A i \in 2..Len(chain) : chain[i].previous_hash = chain[i - 1].hash

\* C3: every add_data either returns True with the chain grown by exactly
\* one block, built on the tail and mined at the ledger's difficulty (its
\* hash is the hash of its fields and has `difficulty` leading zeros), or
\* returns False with the chain exactly as it was.
C3_AddDataAtomic ==
    [][last'.op = "add_data" =>
        \/ /\ last'.ret
           /\ Len(chain') = Len(chain) + 1
           /\ IsPrefix(chain, chain')
           /\ LET b == chain'[Len(chain')]
              IN  /\ DOMAIN b = BlockKeys
                  /\ b.index = Len(chain)
                  /\ b.previous_hash = chain[Len(chain)].hash
                  /\ Consistent(b)
                  /\ MeetsDifficulty(b, difficulty)
        \/ /\ ~last'.ret
           /\ chain' = chain]_vars

C3_Witness ==
    /\ last.op = "add_data"
    /\ last.ret
    /\ "save_error" \in last.events
    /\ Len(chain) = 3
    /\ difficulty = 2

\* C4: an add_data whose save_chain fails to write returns False.
C4_SaveFailureReported ==
    (last.op = "add_data" /\ "save_error" \in last.events) => ~last.ret

\* the arguments C5 calls invalid: a vehicle_id that is empty or not text,
\* or a sensor_data that is not a mapping
InvalidArgs(args) ==
    \/ ~args[1].str
    \/ args[1].text = <<>>
    \/ ~args[2].dict

\* C5: add_data with an invalid argument returns False, leaves the chain and
\* the file as they were, and neither mines nor saves.
C5_InvalidInputRejected ==
    [][(last'.op = "add_data" /\ InvalidArgs(last'.args)) =>
        /\ ~last'.ret
        /\ chain' = chain
        /\ file' = file
        /\ last'.events \cap {"mine_block", "save_chain"} = {}]_vars

C5_Witness ==
    /\ last.op = "add_data"
    /\ InvalidArgs(last.args)
    /\ ~last.ret
    /\ Len(chain) = 2
    /\ file # Stored(chain)

\* C6: a save_chain that writes followed by a load_chain that reads gives
\* back the chain that was saved, block for block and field for field.
C6_RoundTrip ==
    [][(/\ last.op = "save_chain" /\ "save_error" \notin last.events
        /\ last'.op = "load_chain" /\ "load_error" \notin last'.events)
       => chain' = chain]_vars

\* C7: every public operation on a constructed ledger leaves the chain it
\* found as a prefix of the chain it leaves, no block removed or edited.
C7_AppendOnly ==
    [][(up /\ last'.op \in {"add_data", "is_chain_valid", "save_chain",
                            "load_chain", "get_block_by_vehicle_id"})
       => IsPrefix(chain, chain')]_vars

\* C8: a construction whose load_chain fails ends with exactly one block, a
\* mined genesis block with index 0 and previous_hash "0".
C8_FallbackIsLoneGenesis ==
    (last.op = "construct" /\ "load_error" \in last.events) =>
        /\ Len(chain) = 1
        /\ chain[1].index = 0
        /\ chain[1].previous_hash = <<0>>
        /\ MeetsDifficulty(chain[1], difficulty)

\* C9: in a ledger constructed fresh or on storage that earlier ledgers
\* wrote, every block's hash has the ledger's difficulty in leading zeros.
C9_AllBlocksMeetDifficulty ==
    up => \A i \in 1..Len(chain) : MeetsDifficulty(chain[i], difficulty)

\* C10: every block's stored hash is the hash of its fields, after mining
\* and after every load_chain that raised nothing.
C10_StoredHashIsHashOfFields ==
    up => \A i \in 1..Len(chain) : Consistent(chain[i])

\* chain[0] is a genesis block and every later block carries its position
\* and the stored hash of the block before it
WellFormed(ch) ==
    /\ ch # <<>>
    /\ ch[1].index = 0
    /\ ch[1].previous_hash = <<0>>
    /\ \A i \in 2..Len(ch) :
          /\ ch[i].index = i - 1
          /\ ch[i].previous_hash = ch[i - 1].hash

\* C11: in a ledger started with no prior durable state, after the
\* construction and after every add_data, failed or not, saved or not, the
\* chain is well-formed, and an add_data that returns True has appended a
\* block whose index is the length before the call and whose previous_hash
\* is the hash of the block that was the tail.
C11_ChainWellFormed ==
    [][/\ up' => WellFormed(chain')
       /\ (last'.op = "add_data" /\ last'.ret) =>
             /\ Len(chain') = Len(chain) + 1
             /\ chain'[Len(chain')].index = Len(chain)
             /\ chain'[Len(chain')].previous_hash = chain[Len(chain)].hash]_vars

C11_Witness ==
    /\ last.op = "add_data"
    /\ last.ret
    /\ Len(chain) = 3
    /\ file = Stored(SubSeq(chain, 1, 1))

\* C12: when mine_block(d) returns, the first d characters of the block's
\* hash exist and are '0'; mine_block(0) changes neither nonce nor hash.
C12_MinedHashHasZeros ==
    [][last'.op = "mine_block" =>
        LET d == last'.args[1]
            b == chain'[1]
        IN  /\ Len(b.hash) >= d
            /\ \A k \in 1..d : b.hash[k] = 0
            /\ d = 0 => /\ b.nonce = chain[1].nonce
                        /\ b.hash = chain[1].hash]_vars

\* mine_block(2) had to step: the nonce grew
C12_Witness ==
    /\ last.op = "mine_block"
    /\ last.args[1] = 2
    /\ chain[1].nonce > last.out[1].nonce + 1

\* the first d characters of the hash b stores are '0'
AlreadyMined(b, d) ==
    /\ Len(b.hash) >= d
    /\ \A k \in 1..d : b.hash[k] = 0

\* C17: mine_block(d) on a block whose hash already has d leading '0' leaves
\* nonce and hash as they are, and every mine_block leaves index, timestamp,
\* data and previous_hash as they are.
C17_MiningIdempotent ==
    [][last'.op = "mine_block" =>
        /\ AlreadyMined(chain[1], last'.args[1]) =>
              /\ chain'[1].nonce = chain[1].nonce
              /\ chain'[1].hash = chain[1].hash
        /\ chain'[1].index = chain[1].index
        /\ chain'[1].timestamp = chain[1].timestamp
        /\ chain'[1].data = chain[1].data
        /\ chain'[1].previous_hash = chain[1].previous_hash]_vars

\* mine_block(2) called on a block that an earlier mine_block had mined
C17_Witness ==
    /\ last.op = "mine_block"
    /\ last.args[1] = 2
    /\ last.out[1] = chain[1]
    /\ chain[1].nonce \in {1, 2}
    /\ chain[1].hash = HashBlock(chain[1])
    /\ AlreadyMined(chain[1], 2)

\* the block at position i is linked to something else than the block
\* before it, and its own hash is the hash of its fields
Spliced(ch, i) ==
    /\ ch[i].previous_hash # ch[i - 1].hash
    /\ Consistent(ch[i])

\* the blocks at positions 2..i-1 pass both comparisons of is_chain_valid
IntactBefore(ch, i) ==
    \A j \in 2..(i - 1) :
        /\ Consistent(ch[j])
        /\ ch[j].previous_hash = ch[j - 1].hash

\* C13: when a block after the first has a previous_hash that differs from
\* the hash stored in the block before it, is_chain_valid() returns False
\* even though the block's own hash is the hash of its fields; and when the
\* blocks before it are intact, the walk fails first at that block, on the
\* comparison of previous_hash.
C13_SpliceDetected ==
    last.op = "is_chain_valid" =>
        \A i \in 2..Len(chain) :
            Spliced(chain, i) =>
                /\ ~last.ret
                /\ IntactBefore(chain, i) =>
                      /\ Walk(chain, 2).at = i
                      /\ Walk(chain, 2).why = "link"

\* the last of three blocks was linked to the first and re-hashed
C13_Witness ==
    /\ last.op = "is_chain_valid"
    /\ ~last.ret
    /\ tamper.fresh
    /\ tamper.pos = 3
    /\ Len(chain) = 3
    /\ Spliced(chain, 3)
    /\ chain[3].previous_hash = chain[1].hash

\* the blocks after the first whose record is of vehicle v, in chain order
RecordsOf(ch, v) ==
    LET keep == {i \in 2..Len(ch) :
                    /\ "vehicle_id" \in DOMAIN ch[i].data
                    /\ ch[i].data.vehicle_id = v}
        Nth[n \in 0..Len(ch)] ==
            IF n = 0 THEN 0
            ELSE CHOOSE i \in keep :
                    /\ i > Nth[n - 1]
                    /\ \A j \in keep : j > Nth[n - 1] => i <= j
    IN  [n \in 1..Cardinality(keep) |-> ch[Nth[n]]]

\* C14: get_block_by_vehicle_id(v) returns the blocks after the genesis block
\* whose data carries vehicle_id v, all of them and no other, in chain
\* order; it never returns the genesis block, and it leaves the chain and
\* the file as they are.
C14_QueryReturnsRecordsOfVehicle ==
    [][last'.op = "get_block_by_vehicle_id" =>
        /\ last'.out = RecordsOf(chain, last'.args[1])
        /\ \A n \in 1..Len(last'.out) : last'.out[n] # chain[1]
        /\ chain' = chain
        /\ file' = file]_vars

\* two of three blocks are records of one vehicle and both were returned
C14_Witness ==
    /\ last.op = "get_block_by_vehicle_id"
    /\ Len(chain) = 3
    /\ last.out = <<chain[2], chain[3]>>

\* a query for None, the value data.get answers for the genesis block
C14_WitnessNone ==
    /\ last.op = "get_block_by_vehicle_id"
    /\ last.args[1] = PyNone
    /\ Len(chain) = 3
    /\ last.out = <<>>

\* C15: in a ledger started with no prior durable state the chain has one
\* block after the construction, one more after every add_data that returns
\* True and as many as before after every other call, so k + 1 blocks after
\* k add_data calls returned True; and every is_chain_valid() returns True.
C15_LengthCountsAddsAndChainValid ==
    [][/\ last'.op = "construct" => Len(chain') = 1
       /\ (last'.op = "add_data" /\ last'.ret) =>
             Len(chain') = Len(chain) + 1
       /\ (last'.op = "add_data" /\ ~last'.ret) => Len(chain') = Len(chain)
       /\ last'.op \in {"is_chain_valid", "get_block_by_vehicle_id"} =>
             Len(chain') = Len(chain)
       /\ last'.op = "is_chain_valid" => last'.ret]_vars

\* two add_data calls returned True, the save of the second failed, and
\* is_chain_valid was called
C15_Witness ==
    /\ last.op = "is_chain_valid"
    /\ last.ret
    /\ Len(chain) = 3
    /\ file = Stored(SubSeq(chain, 1, 2))

\* C16: constructing a ledger where no file exists leaves a chain of one
\* block with index 0, previous_hash "0" and a hash with `difficulty`
\* leading zeros, and calls save_chain on it: the file holds that chain
\* unless the write failed.
C16_FreshLedgerIsLoneGenesis ==
    [][(last'.op = "construct" /\ ~file.exists) =>
        /\ Len(chain') = 1
        /\ chain'[1].index = 0
        /\ chain'[1].previous_hash = <<0>>
        /\ Len(chain'[1].hash) >= difficulty'
        /\ \A k \in 1..difficulty' : chain'[1].hash[k] = 0
        /\ "save_chain" \in last'.events
        /\ "save_error" \notin last'.events =>
              /\ file'.exists
              /\ file'.records = <<chain'[1]>>]_vars

C16_Witness ==
    /\ last.op = "construct"
    /\ "load_chain" \notin last.events
    /\ difficulty = 2
    /\ Len(chain) = 1
    /\ file = Stored(chain)

\* the file holds the first blocks of the chain, or all of them, as
\* save_chain writes them; no file holds none
FileIsPrefix(f, ch) ==
    f.exists => /\ f.json
                /\ IsPrefix(f.records, Stored(ch).records)

\* an add_data that returned True and whose write succeeded leaves in the
\* file the whole chain, blocks of earlier failed saves included
WriteCatchesUp ==
    (/\ last'.op = "add_data" /\ last'.ret
     /\ "save_error" \notin last'.events)
    => /\ file' = Stored(chain')
       /\ Len(file'.records) = Len(chain) + 1

C19_ChainNeverEmpty == up => Len(chain) >= 1

====
